---- MODULE Spec2Model ----
(***************************************************************************)
(* A model of pytextcanvas (src/pytextcanvas/__init__.py): the Canvas      *)
(* class (cell store, string cache, key resolution, slices, fill, shift)   *)
(* and the pen of the Turtle class.                                        *)
(*                                                                         *)
(* Python values are tagged records, so that isinstance() is a test of the *)
(* tag: None, PyStr(s) with s a sequence of one-character strings, PyInt(n),   *)
(* PyTuple(s) with s a sequence of values, PySlice(start, stop, step).         *)
(* A call returns [exc, canvas, ret]: the exception that escaped ("none"   *)
(* when the call returned), the canvas as the call left it, and the        *)
(* returned value.                                                         *)
(***************************************************************************)
EXTENDS Integers, Sequences, FiniteSets, TLC

\* ------------------------------------------------------------------ bounds
MaxW == 2            \* largest canvas width constructed
MaxH == 2            \* largest canvas height constructed
MaxOps == 2          \* number of calls made on the canvas after construction
MaxStep == 2         \* largest slice step used
MaxTextLen == 2      \* longest text given to loads()
MaxSliceW == 4       \* largest width of a canvas that is sliced
MaxSliceH == 2       \* largest height of a canvas that is sliced
MaxSliceOps == 2     \* number of calls made on a canvas that is sliced
MaxSliceStep == 3    \* largest step of a slice of such a canvas
MaxLoadLen == 4      \* longest text a canvas is constructed from
MaxLoadOps == 1      \* number of calls made on a canvas constructed from a text

\* ------------------------------------------------------------ Python values
None == [t |-> "NoneType"]
PyStr(s) == [t |-> "str", v |-> s]
PyInt(n) == [t |-> "int", v |-> n]
PyFloat(n) == [t |-> "float", v |-> n]
PyBool(b) == [t |-> "bool", v |-> b]
PyTuple(s) == [t |-> "tuple", v |-> s]
PySlice(a, b, c) == [t |-> "slice", start |-> a, stop |-> b, step |-> c]

NoExc == "none"
PyTextCanvasException == "PyTextCanvasException"
ValueError == "ValueError"
ZeroDivisionError == "ZeroDivisionError"
TypeError == "TypeError"

Raise(e, c) == [exc |-> e, canvas |-> c, ret |-> None]
Return(c, r) == [exc |-> NoExc, canvas |-> c, ret |-> r]

Max(a, b) == IF a > b THEN a ELSE b

\* math.ceil(a / float(b)) for integers a and b, b # 0
CeilDiv(a, b) == IF b > 0 THEN -((-a) \div b) ELSE -(a \div (-b))

\* list(range(start, stop, step)) for step # 0
Range(start, stop, step) ==
    [i \in 1..Max(0, CeilDiv(stop - start, step)) |-> start + (i - 1) * step]

\* list(range(n))
Range1(n) == Range(0, n, 1)

\* [(a, b) for a in s for b in u]: the order of two nested for loops
RECURSIVE Nested(_, _)
Nested(s, u) ==
    IF s = <<>> THEN <<>>
    ELSE [j \in 1..Len(u) |-> <<Head(s), u[j]>>] \o Nested(Tail(s), u)

\* ''.join(parts) for a sequence of texts
RECURSIVE Join(_)
Join(parts) == IF parts = <<>> THEN <<>> ELSE Head(parts) \o Join(Tail(parts))

\* sep.join(parts)
RECURSIVE JoinWith(_, _)
JoinWith(sep, parts) ==
    IF parts = <<>> THEN <<>>
    ELSE IF Len(parts) = 1 THEN Head(parts)
    ELSE Head(parts) \o sep \o JoinWith(sep, Tail(parts))

\* --------------------------------------------------------------- the Canvas
\* An operator named XxxWith or XxxRest is the rest of Xxx after a call it
\* makes: it takes the outcome of that call as a parameter.

\* a rendering that walks the columns in the outer loop
RenderTransposed(c) ==
    JoinWith(<<"\n">>,
             [x1 \in 1..c.width |->
                 Join([y1 \in 1..c.height |->
                          IF c.chars[x1 - 1][y1 - 1] = None THEN <<" ">>
                          ELSE c.chars[x1 - 1][y1 - 1].v])])

\* the text __str__ builds from the cells
Render(c) ==
    JoinWith(<<"\n">>,
             [y1 \in 1..c.height |->
                 Join([x1 \in 1..c.width |->
                          IF c.chars[x1 - 1][y1 - 1] = None THEN <<" ">>
                          ELSE c.chars[x1 - 1][y1 - 1].v])])

\* a __str__ that caches the text and leaves the dirty flag set
StrOfKeepsDirty(c) ==
    IF ~c.strDirty THEN Return(c, c.strCache)
    ELSE Return([c EXCEPT !.strCache = PyStr(Render(c))], PyStr(Render(c)))

\* Canvas.__str__
StrOf(c) ==
    IF ~c.strDirty THEN Return(c, c.strCache)
    ELSE Return([c EXCEPT !.strDirty = FALSE, !.strCache = PyStr(Render(c))],
                PyStr(Render(c)))

\* Canvas.__len__
LenOf(c) == (c.width * c.height) + (c.height - 1)

\* a conversion that rejects x = -width and y = -height
ConvertExclusiveLowerBound(c, tupleKey) ==
    IF \/ Len(tupleKey.v) # 2
       \/ tupleKey.v[1].t # "int"
       \/ tupleKey.v[2].t # "int"
    THEN Raise(PyTextCanvasException, c)
    ELSE LET x == tupleKey.v[1].v
             y == tupleKey.v[2].v
         IN IF ~(-c.width < x /\ x < c.width) THEN Raise(PyTextCanvasException, c)
            ELSE IF ~(-c.height < y /\ y < c.height) THEN Raise(PyTextCanvasException, c)
            ELSE Return(c, PyTuple(<<PyInt(IF x < 0 THEN c.width + x ELSE x),
                                   PyInt(IF y < 0 THEN c.height + y ELSE y)>>))

\* Canvas._convertNegativeTupleKeyToPositiveTupleKey; ret is PyTuple(<<x, y>>)
ConvertNegativeTupleKeyToPositiveTupleKey(c, tupleKey) ==
    IF \/ Len(tupleKey.v) # 2
       \/ tupleKey.v[1].t # "int"
       \/ tupleKey.v[2].t # "int"
    THEN Raise(PyTextCanvasException, c)
    ELSE LET x == tupleKey.v[1].v
             y == tupleKey.v[2].v
         IN IF ~(-c.width <= x /\ x < c.width) THEN Raise(PyTextCanvasException, c)
            ELSE IF ~(-c.height <= y /\ y < c.height) THEN Raise(PyTextCanvasException, c)
            ELSE Return(c, PyTuple(<<PyInt(IF x < 0 THEN c.width + x ELSE x),
                                   PyInt(IF y < 0 THEN c.height + y ELSE y)>>))

\* Canvas._checkKey
CheckKey(c, key) == ConvertNegativeTupleKeyToPositiveTupleKey(c, key)

\* Canvas._checkForSlicesInKey: TRUE when it raises
CheckForSlicesInKey(key) ==
    /\ key.t = "tuple"
    /\ \E i \in 1..Len(key.v) : key.v[i].t = "slice"

\* "x2, _dummy = convert((x2, 0))": the converted x with y2 as given
KeepY(q, y2) == IF q.exc # NoExc THEN q ELSE Return(q.canvas, PyTuple(<<q.ret.v[1], y2>>))

\* "_dummy, y2 = convert((0, y2))": the converted y with x2 as given
KeepX(q, x2) == IF q.exc # NoExc THEN q ELSE Return(q.canvas, PyTuple(<<x2, q.ret.v[2]>>))

\* Canvas._normalizeKeySlice from the try statement on: x1, y1, x2, y2 are the
\* swapped start and stop values
NormalizeStop(c, x2, y2) ==
    LET xPlain == x2.v # c.width /\ x2.v # -(c.width - 1)
        yPlain == y2.v # c.height /\ y2.v # -(c.height - 1)
    IN IF xPlain /\ yPlain
       THEN ConvertNegativeTupleKeyToPositiveTupleKey(c, PyTuple(<<x2, y2>>))
       ELSE IF xPlain
       THEN KeepY(ConvertNegativeTupleKeyToPositiveTupleKey(c, PyTuple(<<x2, PyInt(0)>>)), y2)
       ELSE IF yPlain
       THEN KeepX(ConvertNegativeTupleKeyToPositiveTupleKey(c, PyTuple(<<PyInt(0), y2>>)), x2)
       ELSE Return(c, PyTuple(<<x2, y2>>))

\* the return statement of Canvas._normalizeKeySlice: p1 and p2 are the
\* converted start and stop
NormalizeKeySliceWith(c, p1, p2, kstep) ==
    IF p1.exc # NoExc THEN Raise(p1.exc, c)
    ELSE IF p2.exc # NoExc THEN Raise(p2.exc, c)
    ELSE Return(c, [x1 |-> p1.ret.v[1].v, y1 |-> p1.ret.v[2].v,
                    x2 |-> p2.ret.v[1].v, y2 |-> p2.ret.v[2].v,
                    xStep |-> kstep.v[1].v, yStep |-> kstep.v[2].v])

\* Canvas._normalizeKeySlice; ret is [x1, y1, x2, y2, xStep, yStep].
\* Unpacking "x1, y1 = kstart" raises TypeError when kstart is an int. The
\* "except KeyError" of the source catches nothing that the body raises.
NormalizeKeySlice(c, key) ==
    LET kstart == IF key.start = None THEN PyTuple(<<PyInt(0), PyInt(0)>>) ELSE key.start
        kstop == IF key.stop = None THEN PyTuple(<<PyInt(c.width), PyInt(c.height)>>)
                 ELSE key.stop
        kstep == IF key.step = None THEN PyTuple(<<PyInt(1), PyInt(1)>>)
                 ELSE IF key.step.t = "int" THEN PyTuple(<<key.step, key.step>>)
                 ELSE key.step
        swapx == kstart.v[1].v > kstop.v[1].v
        swapy == kstart.v[2].v > kstop.v[2].v
    IN IF kstart.t # "tuple" \/ kstop.t # "tuple" THEN Raise(TypeError, c)
       ELSE IF Len(kstart.v) # 2 \/ Len(kstop.v) # 2 THEN Raise(ValueError, c)
       ELSE NormalizeKeySliceWith(
                c,
                ConvertNegativeTupleKeyToPositiveTupleKey(
                    c, PyTuple(<<IF swapx THEN kstop.v[1] ELSE kstart.v[1],
                                 IF swapy THEN kstop.v[2] ELSE kstart.v[2]>>)),
                NormalizeStop(c, IF swapx THEN kstart.v[1] ELSE kstop.v[1],
                                 IF swapy THEN kstart.v[2] ELSE kstop.v[2]),
                kstep)

\* a list index: a negative index counts from the end
ListIndex(i, n) == IF i < 0 THEN i + n ELSE i

IndexError == "IndexError"

\* self._chars[ix][iy] = value for every <<ix, iy>> of pairs, in order
RECURSIVE WriteCells(_, _, _)
WriteCells(c, pairs, value) ==
    IF pairs = <<>> THEN Return(c, None)
    ELSE IF \/ Head(pairs)[1] < -c.width \/ Head(pairs)[1] >= c.width
            \/ Head(pairs)[2] < -c.height \/ Head(pairs)[2] >= c.height
    THEN Raise(IndexError, c)
    ELSE WriteCells([c EXCEPT !.chars[ListIndex(Head(pairs)[1], c.width)]
                                     [ListIndex(Head(pairs)[2], c.height)] = value],
                    Tail(pairs), value)

\* the two for loops with the steps of the range left out
WriteSliceEveryCell(d, n, value) ==
    IF n.xStep = 0 THEN Raise(ValueError, d)
    ELSE IF Range(n.x1, n.x2, n.xStep) # <<>> /\ n.yStep = 0 THEN Raise(ValueError, d)
    ELSE WriteCells(d, Nested(Range(n.x1, n.x2, 1), Range(n.y1, n.y2, 1)), value)

\* the two for loops of the slice branches of __setitem__ and __delitem__ on
\* the canvas d, for the normalized slice n
WriteSlice(d, n, value) ==
    IF n.xStep = 0 THEN Raise(ValueError, d)
    ELSE IF Range(n.x1, n.x2, n.xStep) # <<>> /\ n.yStep = 0 THEN Raise(ValueError, d)
    ELSE WriteCells(d, Nested(Range(n.x1, n.x2, n.xStep), Range(n.y1, n.y2, n.yStep)), value)

\* the tuple branch of Canvas.__delitem__ for the checked key k
DelItemWith(c, k) ==
    IF k.exc # NoExc THEN Raise(k.exc, c)
    ELSE Return([c EXCEPT !.strDirty = TRUE, !.strCache = None,
                          !.chars[k.ret.v[1].v][k.ret.v[2].v] = None], None)

\* the slice branch of Canvas.__delitem__ on the dirtied canvas d for the
\* outcome n of _normalizeKeySlice
DelSliceWith(d, n) ==
    IF n.exc # NoExc THEN Raise(n.exc, d)
    ELSE WriteSlice(d, n.ret, None)

\* Canvas.__delitem__
DelItem(c, key) ==
    IF CheckForSlicesInKey(key) THEN Raise(PyTextCanvasException, c)
    ELSE IF key.t = "tuple" THEN DelItemWith(c, CheckKey(c, key))
    ELSE IF key.t = "slice"
    THEN DelSliceWith([c EXCEPT !.strDirty = TRUE, !.strCache = None],
                      NormalizeKeySlice(c, key))
    ELSE Raise(PyTextCanvasException, c)

\* a store that takes a blank for a transparent cell
StoreCellBlankAsNone(c, x, y, value) ==
    [c EXCEPT !.strDirty = TRUE, !.strCache = None,
              !.chars[x][y] = IF value = PyStr(<<" ">>) THEN None ELSE value]

\* the store of the tuple branch of Canvas.__setitem__
StoreCell(c, x, y, value) ==
    [c EXCEPT !.strDirty = TRUE, !.strCache = None, !.chars[x][y] = value]

\* the tuple branch of Canvas.__setitem__ for the checked key k
SetItemWith(c, k, value) ==
    IF k.exc # NoExc THEN Raise(k.exc, c)
    ELSE Return(StoreCell(c, k.ret.v[1].v, k.ret.v[2].v, value), None)

\* the slice branch of Canvas.__setitem__ for the outcome n of
\* _normalizeKeySlice
SetSliceWith(c, n, value) ==
    IF n.exc # NoExc THEN Raise(n.exc, c)
    ELSE WriteSlice([c EXCEPT !.strDirty = TRUE, !.strCache = None], n.ret, value)

\* Canvas.__setitem__ for a value that is None or a str (str(value) is then
\* the value itself)
SetItem(c, key, value) ==
    IF CheckForSlicesInKey(key) THEN Raise(PyTextCanvasException, c)
    ELSE IF key.t = "tuple"
    THEN IF value # None /\ Len(value.v) = 0 THEN Raise(PyTextCanvasException, c)
         ELSE IF value # None /\ Len(value.v) # 1 THEN Raise(PyTextCanvasException, c)
         ELSE SetItemWith(c, CheckKey(c, key), value)
    ELSE IF key.t = "slice"
    THEN IF value = None THEN DelItem(c, key)
         ELSE SetSliceWith(c, NormalizeKeySlice(c, key), value)
    ELSE Raise(PyTextCanvasException, c)

\* content.split('\n'): the lines of a text
RECURSIVE Split(_)
Split(text) ==
    IF \A i \in 1..Len(text) : text[i] # "\n" THEN <<text>>
    ELSE LET i == CHOOSE j \in 1..Len(text) :
                      text[j] = "\n" /\ \A m \in 1..(j - 1) : text[m] # "\n"
         IN <<SubSeq(text, 1, i - 1)>> \o Split(SubSeq(text, i + 1, Len(text)))

\* the inner loop of Canvas.loads over one line, from column x
RECURSIVE LoadLine(_, _, _, _)
RECURSIVE LoadLineRest(_, _, _, _)
LoadLine(c, line, x, y) ==
    IF x >= Len(line) THEN Return(c, None)
    ELSE IF x >= c.width THEN Return(c, None)
    ELSE LoadLineRest(SetItem(c, PyTuple(<<PyInt(x), PyInt(y)>>), PyStr(<<line[x + 1]>>)),
                      line, x, y)

\* the inner loop of Canvas.loads after "self[x, y] = v" ended as w
LoadLineRest(w, line, x, y) ==
    IF w.exc # NoExc THEN w
    ELSE LoadLine(w.canvas, line, x + 1, y)

\* the outer loop of Canvas.loads from line y
RECURSIVE LoadLines(_, _, _)
RECURSIVE LoadLinesRest(_, _, _)
LoadLines(c, lines, y) ==
    IF lines = <<>> THEN Return(c, None)
    ELSE LoadLinesRest(LoadLine(c, Head(lines), 0, y), lines, y)

\* the outer loop of Canvas.loads after the inner loop ended as w
LoadLinesRest(w, lines, y) ==
    IF w.exc # NoExc THEN w
    ELSE IF y + 1 >= w.canvas.height THEN Return(w.canvas, None)
    ELSE LoadLines(w.canvas, Tail(lines), y + 1)

\* Canvas.loads
Loads(c, content) == LoadLines(c, Split(content.v), 0)

DEFAULT_CANVAS_WIDTH == 80
DEFAULT_CANVAS_HEIGHT == 25

\* the length of the first line only
MaxOfFirst(s) == s[1]

\* max(s) for a non-empty sequence of integers
MaxOf(s) == CHOOSE m \in {s[i] : i \in 1..Len(s)} : \A i \in 1..Len(s) : s[i] <= m

\* the end of Canvas.__init__: loaded is the outcome of self.loads(loads)
CanvasInitWith(loaded) ==
    IF loaded.exc # NoExc THEN Raise(loaded.exc, None)
    ELSE Return(None, [loaded.canvas EXCEPT !.strCache = None, !.strDirty = TRUE])

\* Canvas.__init__: width and height are None or a value, loads is None or a str
CanvasInit(width, height, loads) ==
    LET inferred == width = None /\ height = None /\ loads # None
        loadsLines == Split(loads.v)
        w == IF inferred THEN MaxOf([i \in 1..Len(loadsLines) |-> Len(loadsLines[i])])
             ELSE IF width = None THEN DEFAULT_CANVAS_WIDTH ELSE width.v
        h == IF inferred THEN Len(loadsLines)
             ELSE IF height = None THEN DEFAULT_CANVAS_HEIGHT ELSE height.v
        blank == [t |-> "Canvas",
                  width |-> w,
                  height |-> h,
                  chars |-> [x \in 0..(w - 1) |-> [y \in 0..(h - 1) |-> None]],
                  cursor |-> <<0, 0>>,
                  strCache |-> None,
                  strDirty |-> TRUE]
    IN IF ~inferred /\ width # None /\ width.t # "int" THEN Raise(PyTextCanvasException, None)
       ELSE IF ~inferred /\ width # None /\ width.v < 1 THEN Raise(PyTextCanvasException, None)
       ELSE IF ~inferred /\ height # None /\ height.t # "int" THEN Raise(PyTextCanvasException, None)
       ELSE IF ~inferred /\ height # None /\ height.v < 1 THEN Raise(PyTextCanvasException, None)
       ELSE IF loads = None THEN Return(None, blank)
       ELSE CanvasInitWith(Loads(blank, loads))

\* Canvas(width=subWidth, height=subHeight)
NewCanvas(width, height) == CanvasInit(PyInt(width), PyInt(height), None)

\* "target[key] = source[...]" where g is the outcome of the read
SetFromGet(target, key, g) ==
    IF g.exc # NoExc THEN Raise(g.exc, target)
    ELSE SetItem(target, key, g.ret)

\* list(enumerate(s))
Enumerate(s) == [i \in 1..Len(s) |-> <<i - 1, s[i]>>]

RECURSIVE GetItem(_, _)

\* The copy loop of the slice branch of Canvas.__getitem__: pairs holds
\* <<<<ix, xoffset>>, <<iy, yoffset>>>> in the order of the two for loops.
RECURSIVE CopyCells(_, _, _, _, _)
RECURSIVE CopyCellsRest(_, _, _, _, _)
CopyCells(c, subcanvas, pairs, x1, y1) ==
    IF pairs = <<>> THEN Return(c, subcanvas)
    ELSE CopyCellsRest(
             c,
             SetFromGet(subcanvas,
                        PyTuple(<<PyInt(Head(pairs)[1][1]), PyInt(Head(pairs)[2][1])>>),
                        GetItem(c, PyTuple(<<PyInt(x1 + Head(pairs)[1][2]),
                                             PyInt(y1 + Head(pairs)[2][2])>>))),
             Tail(pairs), x1, y1)

\* the copy loop after "subcanvas[ix, iy] = self[...]" ended as w
CopyCellsRest(c, w, pairs, x1, y1) ==
    IF w.exc # NoExc THEN Raise(w.exc, c)
    ELSE CopyCells(c, w.canvas, pairs, x1, y1)

\* the tuple branch of Canvas.__getitem__ for the checked key k
GetItemWith(c, k) ==
    IF k.exc # NoExc THEN Raise(k.exc, c)
    ELSE Return(c, c.chars[k.ret.v[1].v][k.ret.v[2].v])

\* the slice branch of Canvas.__getitem__ from the copy loop on: subcanvas
\* is the outcome of Canvas(width=subWidth, height=subHeight)
GetSliceCopy(c, n, subWidth, subHeight, subcanvas) ==
    IF subcanvas.exc # NoExc THEN Raise(subcanvas.exc, c)
    ELSE CopyCells(c, subcanvas.ret,
                   Nested(Enumerate(Range(0, subWidth, n.xStep)),
                          Enumerate(Range(0, subHeight, n.yStep))),
                   n.x1, n.y1)

\* the slice branch of Canvas.__getitem__ for the outcome n of
\* _normalizeKeySlice
GetSliceWith(c, n) ==
    IF n.exc # NoExc THEN Raise(n.exc, c)
    ELSE IF n.ret.xStep = 0 \/ n.ret.yStep = 0 THEN Raise(ZeroDivisionError, c)
    ELSE GetSliceCopy(c, n.ret,
                      CeilDiv(n.ret.x2 - n.ret.x1, n.ret.xStep),
                      CeilDiv(n.ret.y2 - n.ret.y1, n.ret.yStep),
                      NewCanvas(CeilDiv(n.ret.x2 - n.ret.x1, n.ret.xStep),
                                CeilDiv(n.ret.y2 - n.ret.y1, n.ret.yStep)))

\* Canvas.__getitem__
GetItem(c, key) ==
    IF CheckForSlicesInKey(key) THEN Raise(PyTextCanvasException, c)
    ELSE IF key.t = "tuple" THEN GetItemWith(c, CheckKey(c, key))
    ELSE IF key.t = "slice" THEN GetSliceWith(c, NormalizeKeySlice(c, key))
    ELSE Raise(PyTextCanvasException, c)

\* the loop "for x in xs: for y in ys: self[x, y] = char" of Canvas.fill
RECURSIVE SetCells(_, _, _)
RECURSIVE SetCellsRest(_, _, _)
SetCells(c, pairs, char) ==
    IF pairs = <<>> THEN Return(c, None)
    ELSE SetCellsRest(SetItem(c, PyTuple(<<PyInt(Head(pairs)[1]), PyInt(Head(pairs)[2])>>), char),
                      Tail(pairs), char)

\* the loop of Canvas.fill after "self[x, y] = char" ended as w
SetCellsRest(w, pairs, char) ==
    IF w.exc # NoExc THEN w
    ELSE SetCells(w.canvas, pairs, char)

\* a fill whose loop over the columns starts at 1
FillFromOne(c, char) ==
    IF char # None /\ Len(char.v) # 1 THEN Raise(PyTextCanvasException, c)
    ELSE SetCells(c, Nested(Range(1, c.width, 1), Range1(c.height)), char)

\* Canvas.fill
Fill(c, char) ==
    IF char # None /\ Len(char.v) # 1 THEN Raise(PyTextCanvasException, c)
    ELSE SetCells(c, Nested(Range1(c.width), Range1(c.height)), char)

\* a clear that fills with the default blank
ClearBlank(c) == Fill(c, PyStr(<<" ">>))

\* Canvas.clear
Clear(c) == Fill(c, None)

\* the loop "for x in xs: for y in ys: del self[x, y]" of Canvas.shift
RECURSIVE DelCells(_, _)
RECURSIVE DelCellsRest(_, _)
DelCells(c, pairs) ==
    IF pairs = <<>> THEN Return(c, None)
    ELSE DelCellsRest(DelItem(c, PyTuple(<<PyInt(Head(pairs)[1]), PyInt(Head(pairs)[2])>>)),
                      Tail(pairs))

\* the clearing loop of Canvas.shift after "del self[x, y]" ended as w
DelCellsRest(w, pairs) ==
    IF w.exc # NoExc THEN w
    ELSE DelCells(w.canvas, pairs)

\* the loop "self[x + xOffset, y + yOffset] = self[x, y]" of Canvas.shift
RECURSIVE MoveCells(_, _, _, _)
RECURSIVE MoveCellsRest(_, _, _, _)
MoveCells(c, pairs, xOffset, yOffset) ==
    IF pairs = <<>> THEN Return(c, None)
    ELSE MoveCellsRest(
             SetFromGet(c,
                        PyTuple(<<PyInt(Head(pairs)[1] + xOffset),
                                  PyInt(Head(pairs)[2] + yOffset)>>),
                        GetItem(c, PyTuple(<<PyInt(Head(pairs)[1]), PyInt(Head(pairs)[2])>>))),
             Tail(pairs), xOffset, yOffset)

\* the copy loop of Canvas.shift after one assignment ended as w
MoveCellsRest(w, pairs, xOffset, yOffset) ==
    IF w.exc # NoExc THEN w
    ELSE MoveCells(w.canvas, pairs, xOffset, yOffset)

\* Canvas.shift: the clearing of the rows, after the clearing of the columns
\* ended as w
ShiftClearRows(w, yOffset) ==
    IF w.exc # NoExc THEN w
    ELSE DelCells(w.canvas,
                  Nested(Range1(w.canvas.width),
                         IF yOffset >= 0 THEN Range1(yOffset)
                         ELSE Range1(w.canvas.height - 1 - yOffset)))

\* Canvas.shift: the clearing of the columns, after the copy loop ended as w
ShiftClearColumns(w, xOffset) ==
    IF w.exc # NoExc THEN w
    ELSE DelCells(w.canvas,
                  Nested(IF xOffset >= 0 THEN Range1(xOffset)
                         ELSE Range(w.canvas.width - 1 - xOffset, w.canvas.width, 1),
                         Range1(w.canvas.height)))

\* Canvas.shift
Shift(c, xOffset, yOffset) ==
    IF xOffset >= c.width \/ xOffset <= -c.width \/
       yOffset >= c.height \/ yOffset <= -c.height
    THEN Clear(c)
    ELSE ShiftClearRows(
             ShiftClearColumns(
                 MoveCells(c,
                           Nested(IF xOffset > 0 THEN Range(c.width - 1 - xOffset, -1, -1)
                                  ELSE Range1(c.width - xOffset),
                                  IF yOffset > 0 THEN Range(c.height - 1 - yOffset, -1, -1)
                                  ELSE Range1(c.height - yOffset)),
                           xOffset, yOffset),
                 xOffset),
             yOffset)

\* item in text, for two texts
IsSubstring(item, text) ==
    \E i \in 1..(Len(text) + 1) :
        /\ i + Len(item) - 1 <= Len(text)
        /\ SubSeq(text, i, i + Len(item) - 1) = item

\* Canvas.__contains__ after str(self) ended as r
ContainsWith(r, item) == Return(r.canvas, PyBool(IsSubstring(item.v, r.ret.v)))

\* Canvas.__contains__
Contains(c, item) ==
    IF item.t # "str" THEN Raise(PyTextCanvasException, c)
    ELSE ContainsWith(StrOf(c), item)

\* an equality that compares the texts of the two canvases
EqByText(c, other) ==
    IF other.t # "Canvas" THEN FALSE
    ELSE Render(c) = Render(other)

\* Canvas.__eq__
Eq(c, other) ==
    IF other.t # "Canvas" THEN FALSE
    ELSE IF other.width # c.width \/ other.height # c.height THEN FALSE
    ELSE \A x \in 0..(c.width - 1) : \A y \in 0..(c.height - 1) :
             c.chars[x][y] = other.chars[x][y]

\* Canvas.width setter: canvas.width = value
SetWidth(c, value) == Raise(PyTextCanvasException, c)

\* Canvas.height setter: canvas.height = value
SetHeight(c, value) == Raise(PyTextCanvasException, c)

\* Canvas.line: the method takes no argument besides self and its body is
\* "pass"; a call with arguments raises TypeError
Line(c, args) ==
    IF args # <<>> THEN Raise(TypeError, c)
    ELSE Return(c, None)

\* Canvas.isOnCanvas
IsOnCanvas(c, x, y) == 0 <= x /\ x < c.width /\ 0 <= y /\ y < c.height

\* isInside
isInside(point_x, point_y, area_left, area_top, area_width, area_height) ==
    /\ area_left <= point_x /\ point_x < area_left + area_width
    /\ area_top <= point_y /\ point_y < area_top + area_height

\* Canvas.goto from the type checks on, for the x and y it has unpacked
GotoWith(c, x, y) ==
    IF x.t # "int" THEN Raise(PyTextCanvasException, c)
    ELSE IF y.t # "int" THEN Raise(PyTextCanvasException, c)
    ELSE IF ~isInside(x.v, y.v, -c.width, -c.height, c.width * 2, c.height * 2)
    THEN Raise(PyTextCanvasException, c)
    ELSE Return([c EXCEPT !.cursor = <<IF x.v < 0 THEN c.width + x.v ELSE x.v,
                                       IF y.v < 0 THEN c.height + y.v ELSE y.v>>], None)

\* Canvas.goto: x, y = tuple(x) when y is None or neither argument is an int;
\* a tuple or a str of two items unpacks, anything else raises
Goto(c, x, y) ==
    IF y = None \/ (x.t # "int" /\ y.t # "int")
    THEN IF x.t \in {"tuple", "str"} /\ Len(x.v) = 2
         THEN GotoWith(c, IF x.t = "str" THEN PyStr(<<x.v[1]>>) ELSE x.v[1],
                          IF x.t = "str" THEN PyStr(<<x.v[2]>>) ELSE x.v[2])
         ELSE Raise(PyTextCanvasException, c)
    ELSE GotoWith(c, x, y)

\* Canvas.cursor (setter)
SetCursor(c, value) == Goto(c, value, None)

\* Canvas.cursorx (setter)
SetCursorX(c, value) == Goto(c, value, PyInt(c.cursor[2]))

\* Canvas.cursory (setter)
SetCursorY(c, value) == Goto(c, PyInt(c.cursor[1]), value)

\* ---------------------------------------------------------------- the Turtle
DEFAULT_PEN_CHAR == PyStr(<<"#">>)

\* Turtle.__init__
NewTurtle == [x |-> 0, y |-> 0, isDown |-> FALSE, penChar |-> DEFAULT_PEN_CHAR]

\* a penDown that writes the cell and leaves the cache flag alone
PenDownKeepsCache(tu, c) ==
    [exc |-> NoExc,
     turtle |-> [tu EXCEPT !.isDown = TRUE],
     canvas |-> IF IsOnCanvas(c, tu.x, tu.y)
                THEN [c EXCEPT !.chars[tu.x][tu.y] = tu.penChar]
                ELSE c]

\* Turtle.penDown: [exc, turtle, canvas] after the call
PenDown(tu, c) ==
    [exc |-> NoExc,
     turtle |-> [tu EXCEPT !.isDown = TRUE],
     canvas |-> IF IsOnCanvas(c, tu.x, tu.y)
                THEN [c EXCEPT !.strDirty = TRUE, !.chars[tu.x][tu.y] = tu.penChar]
                ELSE c]

\* Turtle.penUp
PenUp(tu) == [tu EXCEPT !.isDown = FALSE]

\* Turtle.penChar setter: [exc, turtle, canvas] after the call
SetPenChar(tu, c, value) ==
    IF value.t # "str" \/ Len(value.v) # 1
    THEN [exc |-> PyTextCanvasException, turtle |-> tu, canvas |-> c]
    ELSE [exc |-> NoExc,
          turtle |-> [tu EXCEPT !.penChar = value],
          canvas |-> IF tu.isDown /\ IsOnCanvas(c, tu.x, tu.y)
                     THEN [c EXCEPT !.strDirty = TRUE, !.chars[tu.x][tu.y] = value]
                     ELSE c]

\* Turtle.north, south, east, west with an integer distance
North(tu, distance) == [tu EXCEPT !.y = tu.y - distance]
South(tu, distance) == [tu EXCEPT !.y = tu.y + distance]
East(tu, distance) == [tu EXCEPT !.x = tu.x + distance]
West(tu, distance) == [tu EXCEPT !.x = tu.x - distance]

\* ------------------------------------------------------------ the program
VARIABLES
    canvas,     \* the Canvas object
    turtle,     \* the Turtle object drawing on it
    last,       \* the last call made: [op, args, exc, ret]
    nops        \* number of calls made so far

vars == <<canvas, turtle, last, nops>>

\* --------------------------------------------------------------- the inputs
Chars == {"a", "b"}
Texts == UNION {[1..n -> Chars \cup {"\n"}] : n \in 0..MaxTextLen}

\* cell values given to set and fill: valid ones, '' and a two-character str
Values == {None, PyStr(<<"a">>), PyStr(<<" ">>), PyStr(<<>>), PyStr(<<"a", "b">>)}

TupleKey(x, y) == PyTuple(<<PyInt(x), PyInt(y)>>)

\* every (x, y) from one below the accepted range to one above it
TupleKeys(c) ==
    {TupleKey(x, y) : x \in (-(c.width + 1))..c.width, y \in (-(c.height + 1))..c.height}

\* the (x, y) of the cells
CellKeys(c) == {TupleKey(x, y) : x \in 0..(c.width - 1), y \in 0..(c.height - 1)}

\* keys that are not a pair of ints
BadKeys == {PyTuple(<<PyInt(0)>>), PyTuple(<<PyFloat(0), PyInt(0)>>)}

\* every linear index from one below the accepted range to one above it
IntKeys(c) == {PyInt(i) : i \in (-(c.width * c.height + 1))..(c.width * c.height)}

SliceStarts(c) == {None, TupleKey(1, 0)}
SliceStops(c) == {None, TupleKey(-1, -1), TupleKey(c.width + 1, c.height)}
SliceSteps == {None} \cup {PyInt(n) : n \in {0} \cup (2..MaxStep)}
SliceKeys(c) ==
    {PySlice(a, b, st) : a \in SliceStarts(c), b \in SliceStops(c), st \in SliceSteps}

\* the <<key, value>> given to set: every value at every cell, one value at
\* the other tuple keys, and three values over the slices
SetArgs(c) ==
    (CellKeys(c) \X Values)
    \cup ((TupleKeys(c) \cup BadKeys \cup {PyInt(0)}) \X {PyStr(<<"a">>)})
    \cup (SliceKeys(c) \X {None, PyStr(<<"a">>), PyStr(<<"a", "b">>)})

\* the objects the canvas c is compared with: itself, a cleared one, one
\* filled with spaces, one that differs in a cell, wider and higher ones,
\* and an int
Others(c) ==
    {c,
     Clear(c).canvas,
     Fill(c, PyStr(<<" ">>)).canvas,
     SetItem(c, TupleKey(-1, -1), PyStr(<<"b">>)).canvas,
     NewCanvas(c.width + 1, c.height).ret,
     NewCanvas(c.width, c.height + 1).ret,
     PyInt(0)}

\* the arguments given to line(): none, and the endpoints of three lines
LineArgs ==
    {<<>>,
     <<PyInt(0), PyInt(0), PyInt(3), PyInt(6)>>,
     <<PyInt(3), PyInt(3), PyInt(-3), PyInt(-3)>>,
     <<PyInt(1), PyInt(1), PyInt(1), PyInt(1)>>}

Call(op, args, r) == [op |-> op, args |-> args, exc |-> r.exc, ret |-> r.ret]

\* the canvas and the record of the call after the call op(args) ended as r
Outcome(op, args, r) ==
    /\ canvas' = r.canvas
    /\ last' = Call(op, args, r)

\* the turtle, the canvas and the record of the call after a call on the
\* turtle ended as r
TurtleOutcome(op, args, r) ==
    /\ turtle' = r.turtle
    /\ canvas' = r.canvas
    /\ last' = [op |-> op, args |-> args, exc |-> r.exc, ret |-> None]

\* -------------------------------------------------------------------- Init
\* canvas = Canvas(width, height, loads); turtle = Turtle(canvas)
Init ==
    /\ \E w \in 1..MaxW, h \in 1..MaxH, loads \in {None} \cup {PyStr(x) : x \in Texts} :
           canvas = CanvasInit(PyInt(w), PyInt(h), loads).ret
    /\ turtle = NewTurtle
    /\ last = [op |-> "init", args |-> <<>>, exc |-> NoExc, ret |-> None]
    /\ nops = 0

\* ----------------------------------------------------------------- actions
\* canvas[key]
DoGetItem ==
    /\ nops < MaxOps
    /\ \E key \in TupleKeys(canvas) \cup BadKeys \cup IntKeys(canvas) \cup SliceKeys(canvas) :
           Outcome("getitem", <<key>>, GetItem(canvas, key))
    /\ nops' = nops + 1
    /\ UNCHANGED turtle

\* canvas[key] = value
DoSetItem ==
    /\ nops < MaxOps
    /\ \E a \in SetArgs(canvas) :
           Outcome("setitem", <<a[1], a[2]>>, SetItem(canvas, a[1], a[2]))
    /\ nops' = nops + 1
    /\ UNCHANGED turtle

\* del canvas[key]
DoDelItem ==
    /\ nops < MaxOps
    /\ \E key \in TupleKeys(canvas) \cup BadKeys \cup {PyInt(0)} \cup SliceKeys(canvas) :
           Outcome("delitem", <<key>>, DelItem(canvas, key))
    /\ nops' = nops + 1
    /\ UNCHANGED turtle

\* str(canvas)
DoStr ==
    /\ nops < MaxOps
    /\ Outcome("str", <<>>, StrOf(canvas))
    /\ nops' = nops + 1
    /\ UNCHANGED turtle

\* item in canvas
DoContains ==
    /\ nops < MaxOps
    /\ \E item \in {PyStr(<<"a">>), PyStr(<<"a", "\n">>), PyInt(0)} :
           Outcome("contains", <<item>>, Contains(canvas, item))
    /\ nops' = nops + 1
    /\ UNCHANGED turtle

\* canvas.fill(char)
DoFill ==
    /\ nops < MaxOps
    /\ \E char \in Values :
           Outcome("fill", <<char>>, Fill(canvas, char))
    /\ nops' = nops + 1
    /\ UNCHANGED turtle

\* canvas.clear()
DoClear ==
    /\ nops < MaxOps
    /\ Outcome("clear", <<>>, Clear(canvas))
    /\ nops' = nops + 1
    /\ UNCHANGED turtle

\* canvas.shift(xOffset, yOffset)
DoShift ==
    /\ nops < MaxOps
    /\ \E xOffset \in (-canvas.width)..canvas.width,
          yOffset \in (-canvas.height)..canvas.height :
           Outcome("shift", <<PyInt(xOffset), PyInt(yOffset)>>, Shift(canvas, xOffset, yOffset))
    /\ nops' = nops + 1
    /\ UNCHANGED turtle

\* canvas.loads(content)
DoLoads ==
    /\ nops < MaxOps
    /\ \E content \in Texts :
           Outcome("loads", <<PyStr(content)>>, Loads(canvas, PyStr(content)))
    /\ nops' = nops + 1
    /\ UNCHANGED turtle

\* canvas == other
DoEq ==
    /\ nops < MaxOps
    /\ \E other \in Others(canvas) :
           Outcome("eq", <<other>>, Return(canvas, PyBool(Eq(canvas, other))))
    /\ nops' = nops + 1
    /\ UNCHANGED turtle

\* canvas.line(...)
DoLine ==
    /\ nops < MaxOps
    /\ \E args \in LineArgs :
           Outcome("line", args, Line(canvas, args))
    /\ nops' = nops + 1
    /\ UNCHANGED turtle

\* turtle.penDown()
DoPenDown ==
    /\ nops < MaxOps
    /\ TurtleOutcome("penDown", <<>>, PenDown(turtle, canvas))
    /\ nops' = nops + 1

\* turtle.penUp()
DoPenUp ==
    /\ nops < MaxOps
    /\ turtle' = PenUp(turtle)
    /\ last' = [op |-> "penUp", args |-> <<>>, exc |-> NoExc, ret |-> None]
    /\ nops' = nops + 1
    /\ UNCHANGED canvas

\* turtle.penChar = value
DoSetPenChar ==
    /\ nops < MaxOps
    /\ \E value \in {PyStr(<<"b">>), PyStr(<<"a", "b">>), None} :
           TurtleOutcome("penChar", <<value>>, SetPenChar(turtle, canvas, value))
    /\ nops' = nops + 1

\* turtle.north(1), turtle.south(1), turtle.east(1), turtle.west(1)
DoMove ==
    /\ nops < MaxOps
    /\ \/ turtle' = North(turtle, 1) /\ last' = [op |-> "north", args |-> <<PyInt(1)>>, exc |-> NoExc, ret |-> None]
       \/ turtle' = South(turtle, 1) /\ last' = [op |-> "south", args |-> <<PyInt(1)>>, exc |-> NoExc, ret |-> None]
       \/ turtle' = East(turtle, 1) /\ last' = [op |-> "east", args |-> <<PyInt(1)>>, exc |-> NoExc, ret |-> None]
       \/ turtle' = West(turtle, 1) /\ last' = [op |-> "west", args |-> <<PyInt(1)>>, exc |-> NoExc, ret |-> None]
    /\ nops' = nops + 1
    /\ UNCHANGED canvas

Next ==
    \/ DoGetItem
    \/ DoSetItem
    \/ DoDelItem
    \/ DoStr
    \/ DoContains
    \/ DoFill
    \/ DoClear
    \/ DoShift
    \/ DoLoads
    \/ DoEq
    \/ DoLine
    \/ DoPenDown
    \/ DoPenUp
    \/ DoSetPenChar
    \/ DoMove

Spec == Init /\ [][Next]_vars

TypeOK ==
    /\ canvas.t = "Canvas"
    /\ nops \in 0..MaxOps

\* ------------------------------------------------------------- properties
IsIntPair(key) ==
    /\ key.t = "tuple"
    /\ Len(key.v) = 2
    /\ key.v[1].t = "int"
    /\ key.v[2].t = "int"

IsOneChar(value) == value.t = "str" /\ Len(value.v) = 1

AllCells(c) == (0..(c.width - 1)) \X (0..(c.height - 1))

C2_SetThenGet ==
    (/\ last.op = "setitem"
     /\ last.args[1] \in CellKeys(canvas)
     /\ IsOneChar(last.args[2]))
    => /\ last.exc = NoExc
       /\ GetItem(canvas, last.args[1]).exc = NoExc
       /\ GetItem(canvas, last.args[1]).ret = last.args[2]

\* C2 witness: a blank was set on a cell, as the second call on the canvas.
C2_Witness ==
    /\ last.op = "setitem"
    /\ nops = 2
    /\ last.args[1] \in CellKeys(canvas)
    /\ last.args[2] = PyStr(<<" ">>)
    /\ last.exc = NoExc

InKeyRange(c, x, y) == -c.width <= x /\ x < c.width /\ -c.height <= y /\ y < c.height

\* C3: get, set (of one character) and delete accept an (x, y) of ints
\* exactly when -width <= x < width and -height <= y < height, fail with
\* PyTextCanvasException otherwise, and address the cell
\* (x mod width, y mod height); get((x - width, y - height)) equals
\* get((x, y)) for every cell.
C3_TupleKey ==
    /\ (/\ last.op \in {"getitem", "setitem", "delitem"}
        /\ IsIntPair(last.args[1])
        /\ last.op = "setitem" => IsOneChar(last.args[2]))
       => LET x == last.args[1].v[1].v
              y == last.args[1].v[2].v
              cell == canvas.chars[x % canvas.width][y % canvas.height]
          IN /\ last.exc = NoExc <=> InKeyRange(canvas, x, y)
             /\ last.exc # NoExc => last.exc = PyTextCanvasException
             /\ (last.exc = NoExc /\ last.op = "getitem") => last.ret = cell
             /\ (last.exc = NoExc /\ last.op = "setitem") => cell = last.args[2]
             /\ (last.exc = NoExc /\ last.op = "delitem") => cell = None
    /\ \A p \in AllCells(canvas) :
           GetItem(canvas, TupleKey(p[1] - canvas.width, p[2] - canvas.height))
               = GetItem(canvas, TupleKey(p[1], p[2]))

\* C3 witness: get((-width, -height)) returned the character of cell (0, 0).
C3_Witness ==
    /\ last.op = "getitem"
    /\ last.args[1] = TupleKey(-canvas.width, -canvas.height)
    /\ last.exc = NoExc
    /\ last.ret = PyStr(<<"a">>)

\* C9: shift(dx, dy) with |dx| >= width or |dy| >= height returns and leaves
\* every cell transparent.
C9_ShiftBeyondClears ==
    (/\ last.op = "shift"
     /\ \/ last.args[1].v >= canvas.width
        \/ last.args[1].v <= -canvas.width
        \/ last.args[2].v >= canvas.height
        \/ last.args[2].v <= -canvas.height)
    => /\ last.exc = NoExc
       /\ \A p \in AllCells(canvas) : canvas.chars[p[1]][p[2]] = None
       /\ canvas.strDirty

\* C9 witness: a shift by minus the width ran as the second call and left
\* the canvas empty.
C9_Witness ==
    /\ last.op = "shift"
    /\ nops = 2
    /\ last.args[1].v = -canvas.width
    /\ last.args[2].v = 0
    /\ last.exc = NoExc
    /\ \A p \in AllCells(canvas) : canvas.chars[p[1]][p[2]] = None

\* C4: get(i) with an integer i returns the cell (i mod width, i div width)
\* for 0 <= i < width*height, the cell of width*height + i for
\* -width*height <= i < 0, and fails as out of range for any other integer.
LinearCell(c, i) == c.chars[i % c.width][i \div c.width]

C4_LinearIndex ==
    (last.op = "getitem" /\ last.args[1].t = "int")
    => IF 0 <= last.args[1].v /\ last.args[1].v < canvas.width * canvas.height
       THEN last.exc = NoExc /\ last.ret = LinearCell(canvas, last.args[1].v)
       ELSE IF -(canvas.width * canvas.height) <= last.args[1].v /\ last.args[1].v < 0
       THEN /\ last.exc = NoExc
            /\ last.ret = LinearCell(canvas, canvas.width * canvas.height + last.args[1].v)
       ELSE last.exc = PyTextCanvasException

\* C5: set(key, value) with a value that is neither None nor one character
\* fails with PyTextCanvasException for an (x, y) key and for a range key
\* alike, and every cell holds None or exactly one character.
C5_ValueChecked ==
    /\ (/\ last.op = "setitem"
        /\ IsIntPair(last.args[1]) \/ last.args[1].t = "slice"
        /\ last.args[2] # None
        /\ ~IsOneChar(last.args[2]))
       => last.exc = PyTextCanvasException
    /\ \A p \in AllCells(canvas) :
           \/ canvas.chars[p[1]][p[2]] = None
           \/ IsOneChar(canvas.chars[p[1]][p[2]])

\* C6: in every state the text of the canvas has width*height + (height-1)
\* characters, and that is what len(canvas) reports.
C6_TextLength ==
    /\ Len(Render(canvas)) = canvas.width * canvas.height + (canvas.height - 1)
    /\ LenOf(canvas) = Len(Render(canvas))

CanvasOps == {"getitem", "setitem", "delitem", "fill", "shift"}

\* C7: a get, set, delete, slice, fill or shift that fails leaves the cells,
\* the cached text and the dirty flag as they were before the call.
C7_FailureKeepsCanvas ==
    [][(last'.op \in CanvasOps /\ nops' = nops + 1 /\ last'.exc # NoExc)
       => canvas' = canvas]_vars

\* the content shift(dx, dy) is to leave in cell (x, y) of the canvas c
Shifted(c, x, y, dx, dy) ==
    IF IsOnCanvas(c, x - dx, y - dy) THEN c.chars[x - dx][y - dy] ELSE None

\* C8: shift(dx, dy) with |dx| < width and |dy| < height returns, and
\* afterwards cell (x, y) holds what (x - dx, y - dy) held before when that
\* is a cell of the canvas, and None otherwise.
C8_ShiftTranslates ==
    [][(/\ last'.op = "shift"
        /\ nops' = nops + 1
        /\ -canvas.width < last'.args[1].v /\ last'.args[1].v < canvas.width
        /\ -canvas.height < last'.args[2].v /\ last'.args[2].v < canvas.height)
       => /\ last'.exc = NoExc
          /\ \A p \in AllCells(canvas) :
                 canvas'.chars[p[1]][p[2]]
                     = Shifted(canvas, p[1], p[2], last'.args[1].v, last'.args[2].v)]_vars

\* ------------------------------------------------- slices of wider canvases
Alphabet == <<"a", "b", "c", "d", "e", "f", "g", "h">>

\* a text that gives the cells of a width by height canvas different
\* characters, as far as the alphabet reaches
SliceText(width, height) ==
    JoinWith(<<"\n">>,
             [y \in 1..height |->
                 [x \in 1..width |-> Alphabet[(((y - 1) * width + x - 1) % Len(Alphabet)) + 1]]])

WideStarts == {None} \cup {TupleKey(x, y) : x \in 0..1, y \in 0..1}
WideStops(c) == {None, TupleKey(-1, -1)} \cup {TupleKey(x, c.height) : x \in 1..c.width}
WideSteps ==
    {None, PyTuple(<<PyInt(2), PyInt(1)>>)} \cup {PyInt(n) : n \in 1..MaxSliceStep}
WideSliceKeys(c) ==
    {PySlice(a, b, st) : a \in WideStarts, b \in WideStops(c), st \in WideSteps}

\* canvas = Canvas(width, height, loads) with a text that fills it
InitSlice ==
    /\ \E w \in 1..MaxSliceW, h \in 1..MaxSliceH :
           canvas = CanvasInit(PyInt(w), PyInt(h), PyStr(SliceText(w, h))).ret
    /\ turtle = NewTurtle
    /\ last = [op |-> "init", args |-> <<>>, exc |-> NoExc, ret |-> None]
    /\ nops = 0

\* canvas[start:stop:step]
DoSliceGet ==
    /\ nops < MaxSliceOps
    /\ \E key \in WideSliceKeys(canvas) :
           Outcome("getitem", <<key>>, GetItem(canvas, key))
    /\ nops' = nops + 1
    /\ UNCHANGED turtle

\* canvas[start:stop:step] = 'z'
DoSliceSet ==
    /\ nops < MaxSliceOps
    /\ \E key \in WideSliceKeys(canvas) :
           Outcome("setitem", <<key, PyStr(<<"z">>)>>, SetItem(canvas, key, PyStr(<<"z">>)))
    /\ nops' = nops + 1
    /\ UNCHANGED turtle

\* del canvas[start:stop:step]
DoSliceDel ==
    /\ nops < MaxSliceOps
    /\ \E key \in WideSliceKeys(canvas) :
           Outcome("delitem", <<key>>, DelItem(canvas, key))
    /\ nops' = nops + 1
    /\ UNCHANGED turtle

NextSlice ==
    \/ DoSliceGet
    \/ DoSliceSet
    \/ DoSliceDel

SpecSlice == InitSlice /\ [][NextSlice]_vars

\* the range n is not empty and its steps are at least 1
IsSteppedRange(n) ==
    /\ n.exc = NoExc
    /\ n.ret.xStep >= 1 /\ n.ret.yStep >= 1
    /\ n.ret.x1 < n.ret.x2 /\ n.ret.y1 < n.ret.y2

\* sub is the canvas of the cells (x1 + i*xStep, y1 + j*yStep) of c
IsSteppedCopy(c, n, sub) ==
    /\ sub.t = "Canvas"
    /\ sub.width = CeilDiv(n.x2 - n.x1, n.xStep)
    /\ sub.height = CeilDiv(n.y2 - n.y1, n.yStep)
    /\ \A i \in 0..(sub.width - 1), j \in 0..(sub.height - 1) :
           sub.chars[i][j] = c.chars[n.x1 + i * n.xStep][n.y1 + j * n.yStep]

\* C10: a slice over a non-empty range resolved to (x1, y1, x2, y2) with
\* steps xStep >= 1 and yStep >= 1 returns a canvas of width
\* ceil((x2-x1)/xStep) and height ceil((y2-y1)/yStep) whose cell (i, j) is
\* the source cell (x1 + i*xStep, y1 + j*yStep).
C10_SliceSteps ==
    (/\ last.op = "getitem"
     /\ last.args[1].t = "slice"
     /\ IsSteppedRange(NormalizeKeySlice(canvas, last.args[1])))
    => /\ last.exc = NoExc
       /\ IsSteppedCopy(canvas, NormalizeKeySlice(canvas, last.args[1]).ret, last.ret)

\* the key is the slice [:] or (0, 0):(width, height) of the canvas c
IsFullRange(c, key) ==
    /\ key.t = "slice"
    /\ key.start \in {None, TupleKey(0, 0)}
    /\ key.stop \in {None, TupleKey(c.width, c.height)}
    /\ key.step = None

\* C11: the full-range slice of a canvas returns a canvas that equals the
\* original under __eq__, in both directions. (The slice is a value of its
\* own in the model, as it is an object with lists of its own in the code.)
C11_FullSliceEquals ==
    (last.op = "getitem" /\ IsFullRange(canvas, last.args[1]))
    => /\ last.exc = NoExc
       /\ Eq(canvas, last.ret)
       /\ Eq(last.ret, canvas)

\* the resolved range n of the canvas c is in canonical form
IsCanonical(c, n) ==
    /\ 0 <= n.x1 /\ n.x1 <= n.x2 /\ n.x2 <= c.width
    /\ 0 <= n.y1 /\ n.y1 <= n.y2 /\ n.y2 <= c.height

\* the outcome n of _normalizeKeySlice is an error or a canonical range
ResolvesCanonical(c, n) == n.exc = NoExc => IsCanonical(c, n.ret)

\* C12: every two-point range that _normalizeKeySlice accepts is resolved to
\* 0 <= x1 <= x2 <= width and 0 <= y1 <= y2 <= height.
C12_RangeCanonical ==
    (last.op \in {"getitem", "setitem", "delitem"} /\ last.args[1].t = "slice")
    => ResolvesCanonical(canvas, NormalizeKeySlice(canvas, last.args[1]))

\* a and b are canvases of the same size with the same value in every cell
SameCells(a, b) ==
    /\ a.t = "Canvas" /\ b.t = "Canvas"
    /\ a.width = b.width
    /\ a.height = b.height
    /\ a.chars = b.chars

\* every cell of the canvas c holds value
AllCellsHold(c, value) == \A p \in AllCells(c) : c.chars[p[1]][p[2]] = value

\* C13: canvas == other is true exactly when other is a canvas of the same
\* width and height with the same value in every cell, None and ' ' being
\* different values: a cleared canvas and one filled with ' ' are not equal
\* although their texts are the same.
C13_Equals ==
    last.op = "eq"
    => /\ last.ret = PyBool(SameCells(canvas, last.args[1]))
       /\ (/\ last.args[1].t = "Canvas"
           /\ AllCellsHold(canvas, None)
           /\ AllCellsHold(last.args[1], PyStr(<<" ">>)))
          => last.ret = PyBool(FALSE)

\* C13 witness: a canvas of transparent cells was compared with one of the
\* same size filled with spaces; the texts are the same, the answer is no.
C13_Witness ==
    /\ last.op = "eq"
    /\ last.args[1].t = "Canvas"
    /\ last.args[1].width = canvas.width
    /\ last.args[1].height = canvas.height
    /\ AllCellsHold(canvas, None)
    /\ AllCellsHold(last.args[1], PyStr(<<" ">>))
    /\ Render(canvas) = Render(last.args[1])
    /\ last.ret = PyBool(FALSE)

ReadOps == {"eq", "contains", "str"}

\* C14 as claimed: ==, in and str() leave every cell and the value of the
\* dirty flag as they were.
C14_ReadOnly ==
    [][(last'.op \in ReadOps /\ nops' = nops + 1)
       => /\ canvas'.chars = canvas.chars
          /\ canvas'.strDirty = canvas.strDirty]_vars

\* C14 as amended: ==, in and str() leave every cell unchanged and never
\* set the dirty flag; == and an "in" that fails leave the whole canvas as
\* it was, while str() and an "in" that answers leave the flag false and
\* the text of the cells in the cache.
C14_ReadOnlyCells ==
    [][(last'.op \in ReadOps /\ nops' = nops + 1)
       => /\ canvas'.chars = canvas.chars
          /\ canvas'.strDirty => canvas.strDirty
          /\ (last'.op = "eq" \/ last'.exc # NoExc) => canvas' = canvas
          /\ (last'.op # "eq" /\ last'.exc = NoExc)
             => /\ ~canvas'.strDirty
                /\ canvas'.strCache = PyStr(Render(canvas))]_vars

\* C14 witness: the first call on a canvas, which is dirty from its
\* construction, was an "in" that answered yes; the flag is now false.
C14_Witness ==
    /\ last.op = "contains"
    /\ nops = 1
    /\ last.ret = PyBool(TRUE)
    /\ ~canvas.strDirty

\* ------------------------------------------- construction from a text
LoadTexts == UNION {[1..n -> Chars \cup {"\n"}] : n \in 0..MaxLoadLen}

\* the <<width, height, loads>> given to Canvas(): a size inferred from the
\* text, a size given (valid or not) with or without a text, and defaults
CtorArgs ==
    {<<None, None, PyStr(text)>> : text \in LoadTexts}
    \cup {<<PyInt(w), PyInt(h), loads>> :
              w \in 0..MaxW, h \in 0..MaxH,
              loads \in {None, PyStr(<<"a", "b", "\n", "b">>)}}
    \cup {<<PyFloat(1), PyInt(1), None>>,
          <<None, None, None>>,
          <<None, PyInt(1), None>>,
          <<PyInt(1), None, PyStr(<<"a">>)>>}

\* canvas = Canvas(width, height, loads), for the arguments that construct one
InitLoad ==
    /\ \E a \in CtorArgs :
           /\ CanvasInit(a[1], a[2], a[3]).exc = NoExc
           /\ canvas = CanvasInit(a[1], a[2], a[3]).ret
           /\ last = [op |-> "init", args |-> a, exc |-> NoExc, ret |-> None]
    /\ turtle = NewTurtle
    /\ nops = 0

\* str(canvas)
DoLoadStr ==
    /\ nops < MaxLoadOps
    /\ Outcome("str", <<>>, StrOf(canvas))
    /\ nops' = nops + 1
    /\ UNCHANGED turtle

\* canvas.loads(content)
DoLoadLoads ==
    /\ nops < MaxLoadOps
    /\ \E content \in Texts :
           Outcome("loads", <<PyStr(content)>>, Loads(canvas, PyStr(content)))
    /\ nops' = nops + 1
    /\ UNCHANGED turtle

\* canvas.width = value
DoSetWidth ==
    /\ nops < MaxLoadOps
    /\ \E value \in {PyInt(1), PyInt(3)} :
           Outcome("setwidth", <<value>>, SetWidth(canvas, value))
    /\ nops' = nops + 1
    /\ UNCHANGED turtle

\* canvas.height = value
DoSetHeight ==
    /\ nops < MaxLoadOps
    /\ \E value \in {PyInt(1), PyInt(3)} :
           Outcome("setheight", <<value>>, SetHeight(canvas, value))
    /\ nops' = nops + 1
    /\ UNCHANGED turtle

NextLoad ==
    \/ DoLoadStr
    \/ DoLoadLoads
    \/ DoSetWidth
    \/ DoSetHeight

SpecLoad == InitLoad /\ [][NextLoad]_vars

\* C15: a constructed canvas has width >= 1 and height >= 1, no call
\* changes its width or height, and assigning to width or height fails.
C15_SizeFixed ==
    [][/\ canvas.width >= 1
       /\ canvas.height >= 1
       /\ canvas'.width = canvas.width
       /\ canvas'.height = canvas.height
       /\ last'.op \in {"setwidth", "setheight"} => last'.exc = PyTextCanvasException]_vars

\* the number of newlines among the first i characters of text
NewlinesBefore(text, i) == Cardinality({j \in 1..i : text[j] = "\n"})

\* the number of lines of text
LineCount(text) == NewlinesBefore(text, Len(text)) + 1

\* the length of line k of text, lines counted from 1
LineLen(text, k) ==
    Cardinality({j \in 1..Len(text) : text[j] # "\n" /\ NewlinesBefore(text, j) = k - 1})

\* the position in text of the first character of line k
LineStart(text, k) ==
    IF k = 1 THEN 1
    ELSE 1 + CHOOSE j \in 1..Len(text) : text[j] = "\n" /\ NewlinesBefore(text, j) = k - 1

\* the length of the longest line of text
LongestLine(text) ==
    CHOOSE m \in 0..Len(text) :
        /\ \E k \in 1..LineCount(text) : LineLen(text, k) = m
        /\ \A k \in 1..LineCount(text) : LineLen(text, k) <= m

\* text with every line padded with spaces to width w, the h lines joined by
\* newlines
PaddedText(text, w, h) ==
    [n \in 1..(w * h + (h - 1)) |->
        IF (n - 1) % (w + 1) = w THEN "\n"
        ELSE IF ((n - 1) % (w + 1)) + 1 <= LineLen(text, ((n - 1) \div (w + 1)) + 1)
        THEN text[LineStart(text, ((n - 1) \div (w + 1)) + 1) + ((n - 1) % (w + 1))]
        ELSE " "]

\* the canvas was constructed from a text with no size given
IsInferred(call) ==
    /\ call.op = "init"
    /\ call.args[1] = None
    /\ call.args[2] = None
    /\ call.args[3] # None

\* C16: a canvas constructed from a text T with no size given has the
\* length of T's longest line as width and the number of T's lines as
\* height, and str() of it returns T with every line padded with spaces to
\* that width, the lines joined by newlines with none at the end.
C16_RoundTrip ==
    [][(IsInferred(last) /\ last'.op = "str")
       => /\ canvas.width = LongestLine(last.args[3].v)
          /\ canvas.height = LineCount(last.args[3].v)
          /\ last'.exc = NoExc
          /\ last'.ret = PyStr(PaddedText(last.args[3].v, canvas.width, canvas.height))]_vars

\* C16 witness: str() of the canvas constructed from the lines 'a' and 'bb'
\* returned 'a ' and 'bb'.
C16_Witness ==
    /\ last.op = "str"
    /\ nops = 1
    /\ canvas.width = 2
    /\ canvas.height = 2
    /\ last.ret = PyStr(<<"a", " ", "\n", "b", "b">>)

\* what a cell shows: its content, a space when it is transparent
CellText(value) == IF value = None THEN <<" ">> ELSE value.v

\* row y of the canvas c from column x on
RECURSIVE RowFrom(_, _, _)
RowFrom(c, x, y) ==
    IF x >= c.width THEN <<>>
    ELSE CellText(c.chars[x][y]) \o RowFrom(c, x + 1, y)

\* the rows of the canvas c from row y on, a newline between two rows
RECURSIVE RowsFrom(_, _)
RowsFrom(c, y) ==
    IF y = c.height - 1 THEN RowFrom(c, 0, y)
    ELSE RowFrom(c, 0, y) \o <<"\n">> \o RowsFrom(c, y + 1)

\* C17: str() of a dirty canvas returns the rows 0..height-1 in order, each
\* the contents of its cells 0..width-1 in order with a space for a
\* transparent cell, joined by one newline with none at the end; it stores
\* that text as the cache and clears the dirty flag.
C17_Render ==
    [][(last'.op = "str" /\ nops' = nops + 1 /\ canvas.strDirty)
       => /\ last'.exc = NoExc
          /\ last'.ret = PyStr(RowsFrom(canvas, 0))
          /\ canvas'.strCache = last'.ret
          /\ ~canvas'.strDirty
          /\ canvas'.chars = canvas.chars]_vars

\* C17 witness: str() after fill(' ') on a 2 by 2 canvas returned two rows
\* of two spaces.
C17_Witness ==
    /\ last.op = "str"
    /\ nops = 2
    /\ canvas.width = 2
    /\ canvas.height = 2
    /\ AllCellsHold(canvas, PyStr(<<" ">>))
    /\ last.ret = PyStr(<<" ", " ", "\n", " ", " ">>)
    /\ canvas.strCache = last.ret
    /\ ~canvas.strDirty

\* get((x, y)) returns value for every cell (x, y) of the canvas c
EveryGetReturns(c, value) ==
    \A p \in AllCells(c) : GetItem(c, TupleKey(p[1], p[2])) = Return(c, value)

\* C18: fill(ch) with one character ch returns and leaves every cell
\* holding ch; clear() and fill(None) return and leave every cell
\* transparent, so that get((x, y)) returns None for every cell.
C18_FillAll ==
    /\ (last.op = "fill" /\ IsOneChar(last.args[1]))
       => last.exc = NoExc /\ EveryGetReturns(canvas, last.args[1])
    /\ (last.op = "clear" \/ (last.op = "fill" /\ last.args[1] = None))
       => last.exc = NoExc /\ EveryGetReturns(canvas, None)

\* C18 witness: clear() ran as the second call on a canvas of two columns
\* and every cell is transparent.
C18_Witness ==
    /\ last.op = "clear"
    /\ nops = 2
    /\ canvas.width = 2
    /\ last.exc = NoExc
    /\ AllCellsHold(canvas, None)

\* points is a sequence of grid points that starts at first, ends at final
\* and holds each of the two exactly once (one point when they coincide)
JoinsEndpoints(points, first, final) ==
    /\ points.t = "list"
    /\ Len(points.v) >= 1
    /\ points.v[1] = first
    /\ points.v[Len(points.v)] = final
    /\ Cardinality({i \in 1..Len(points.v) : points.v[i] = first}) = 1
    /\ Cardinality({i \in 1..Len(points.v) : points.v[i] = final}) = 1
    /\ first = final => Len(points.v) = 1

\* C19: the line from (x1, y1) to (x2, y2) is returned as a finite sequence
\* of grid points that starts at (x1, y1), ends at (x2, y2) and holds each
\* endpoint exactly once; the line from (0, 0) to (3, 6) is
\* (0,0), (0,1), (1,2), (1,3), (2,4), (2,5), (3,6).
C19_LinePoints ==
    (last.op = "line" /\ Len(last.args) = 4)
    => /\ last.exc = NoExc
       /\ JoinsEndpoints(last.ret,
                         PyTuple(<<last.args[1], last.args[2]>>),
                         PyTuple(<<last.args[3], last.args[4]>>))
       /\ last.args = <<PyInt(0), PyInt(0), PyInt(3), PyInt(6)>>
          => last.ret.v = <<TupleKey(0, 0), TupleKey(0, 1), TupleKey(1, 2), TupleKey(1, 3),
                            TupleKey(2, 4), TupleKey(2, 5), TupleKey(3, 6)>>

\* C20: a get, set, delete, slice, fill or shift on the canvas returns or
\* raises PyTextCanvasException; no error of another kind leaves it.
C20_OneErrorKind ==
    last.op \in CanvasOps => last.exc \in {NoExc, PyTextCanvasException}

\* the range n was resolved without an error and both of its steps are positive
HasPositiveSteps(n) == n.exc = NoExc /\ n.ret.xStep >= 1 /\ n.ret.yStep >= 1

\* (x, y) is one of the cells (x1 + i*xStep, y1 + j*yStep) in [x1, x2) x [y1, y2)
IsSteppedCell(n, x, y) ==
    /\ n.x1 <= x /\ x < n.x2 /\ (x - n.x1) % n.xStep = 0
    /\ n.y1 <= y /\ y < n.y2 /\ (y - n.y1) % n.yStep = 0

\* the canvas d is the canvas c with value in the stepped cells of n and
\* every other cell as it was
WritesExactly(c, d, n, value) ==
    /\ d.width = c.width /\ d.height = c.height
    /\ \A x \in n.x1..(n.x2 - 1), y \in n.y1..(n.y2 - 1) : <<x, y>> \in AllCells(c)
    /\ \A p \in AllCells(c) :
           d.chars[p[1]][p[2]] = IF IsSteppedCell(n, p[1], p[2]) THEN value
                                 ELSE c.chars[p[1]][p[2]]

\* C21: a set of one character on a range that resolves to
\* (x1, y1, x2, y2, xStep, yStep) with positive steps returns and leaves the
\* character in exactly the cells (x1 + i*xStep, y1 + j*yStep) of
\* [x1, x2) x [y1, y2), every other cell as it was; a delete of the range
\* does the same with None (Transparent).
C21_SliceWrites ==
    [][(/\ last'.op \in {"setitem", "delitem"}
        /\ last'.args[1].t = "slice"
        /\ last'.op = "setitem" => IsOneChar(last'.args[2])
        /\ HasPositiveSteps(NormalizeKeySlice(canvas, last'.args[1])))
       => /\ last'.exc = NoExc
          /\ WritesExactly(canvas, canvas', NormalizeKeySlice(canvas, last'.args[1]).ret,
                           IF last'.op = "setitem" THEN last'.args[2] ELSE None)]_vars

\* C21 witness: 'z' was set with step 2 over the whole of the one-row canvas
\* 'abcd', which now reads 'zbzd'.
C21_Witness ==
    /\ last.op = "setitem"
    /\ nops = 1
    /\ last.args[1] = PySlice(None, None, PyInt(2))
    /\ last.exc = NoExc
    /\ canvas.width = 4 /\ canvas.height = 1
    /\ Render(canvas) = <<"z", "b", "z", "d">>

\* ------------------------------------------------------------ SpecCursor
\* the coordinates given to goto and to the cursor properties: every int
\* from one below the accepted range to one above it
CursorXs(c) == {PyInt(x) : x \in (-(c.width + 1))..c.width}
CursorYs(c) == {PyInt(y) : y \in (-(c.height + 1))..c.height}

\* arguments that are not an int
NotInts == {None, PyFloat(0), TupleKey(0, 0), PyStr(<<"a", "b">>)}

\* the <<x, y>> given to goto: two ints, a pair alone, and arguments of
\* other types
GotoArgs(c) ==
    (CursorXs(c) \X CursorYs(c))
    \cup ((TupleKeys(c) \cup BadKeys \cup NotInts \cup {PyInt(0)}) \X {None})
    \cup {<<PyFloat(0), PyInt(0)>>, <<PyInt(0), PyFloat(0)>>,
          <<TupleKey(0, 0), PyInt(0)>>, <<TupleKey(0, 0), TupleKey(0, 0)>>,
          <<PyFloat(0), PyFloat(0)>>}

\* canvas = Canvas(width, height) or Canvas(loads=text)
InitCursor ==
    /\ \E a \in {<<PyInt(w), PyInt(h), None>> : w \in 1..MaxW, h \in 1..MaxH}
                \cup {<<None, None, PyStr(text)>> : text \in Texts} :
           /\ CanvasInit(a[1], a[2], a[3]).exc = NoExc
           /\ canvas = CanvasInit(a[1], a[2], a[3]).ret
           /\ last = [op |-> "init", args |-> a, exc |-> NoExc, ret |-> None]
    /\ turtle = NewTurtle
    /\ nops = 0

\* canvas.goto(x, y)
DoGoto ==
    /\ nops < MaxOps
    /\ \E a \in GotoArgs(canvas) :
           Outcome("goto", <<a[1], a[2]>>, Goto(canvas, a[1], a[2]))
    /\ nops' = nops + 1
    /\ UNCHANGED turtle

\* canvas.cursor = value
DoSetCursor ==
    /\ nops < MaxOps
    /\ \E value \in TupleKeys(canvas) \cup BadKeys \cup NotInts \cup {PyInt(0)} :
           Outcome("setcursor", <<value>>, SetCursor(canvas, value))
    /\ nops' = nops + 1
    /\ UNCHANGED turtle

\* canvas.cursorx = value
DoSetCursorX ==
    /\ nops < MaxOps
    /\ \E value \in CursorXs(canvas) \cup NotInts :
           Outcome("setcursorx", <<value>>, SetCursorX(canvas, value))
    /\ nops' = nops + 1
    /\ UNCHANGED turtle

\* canvas.cursory = value
DoSetCursorY ==
    /\ nops < MaxOps
    /\ \E value \in CursorYs(canvas) \cup NotInts :
           Outcome("setcursory", <<value>>, SetCursorY(canvas, value))
    /\ nops' = nops + 1
    /\ UNCHANGED turtle

NextCursor ==
    \/ DoGoto
    \/ DoSetCursor
    \/ DoSetCursorX
    \/ DoSetCursorY
    \/ DoSetItem
    \/ DoDelItem
    \/ DoFill
    \/ DoShift

SpecCursor == InitCursor /\ [][NextCursor]_vars

\* the cursor of c is (x, y) with 0 <= x < width and 0 <= y < height
CursorInRange(c) == c.cursor \in (0..(c.width - 1)) \X (0..(c.height - 1))

\* the call op(args) that ended as exc took the canvas c to d: a goto to two
\* ints in the accepted range returned and left the cursor at
\* (x mod width, y mod height), a rejected goto or cursor assignment left the
\* cursor as it was, and so did a cell operation
CursorFollows(c, d, op, args, exc) ==
    /\ (/\ op = "goto"
        /\ args[1].t = "int" /\ args[2].t = "int"
        /\ InKeyRange(c, args[1].v, args[2].v))
       => /\ exc = NoExc
          /\ d.cursor = <<args[1].v % c.width, args[2].v % c.height>>
    /\ (op \in {"goto", "setcursor", "setcursorx", "setcursory"} /\ exc # NoExc)
       => d.cursor = c.cursor
    /\ op \in {"setitem", "delitem", "fill", "shift"} => d.cursor = c.cursor

\* C22: from construction on, through every goto and every assignment to
\* cursor, cursorx and cursory, returned or rejected, the cursor is a pair of
\* integers (x, y) with 0 <= x < width and 0 <= y < height; a goto(x, y) with
\* -width <= x < width and -height <= y < height is accepted and sets it to
\* (x mod width, y mod height), a rejected goto leaves it as it was, and no
\* set, delete, fill or shift changes it.
C22_CursorOnCanvas ==
    /\ []CursorInRange(canvas)
    /\ [][CursorFollows(canvas, canvas', last'.op, last'.args, last'.exc)]_vars

====
